---- MODULE Spec2Model ----
(***************************************************************************)
(* Model of src-tauri/src/main.rs: the `greet` command registered with the *)
(* Tauri runtime and the menu-event bridge that toggles the devtools of    *)
(* the webview window labeled "main".                                      *)
(*                                                                         *)
(* Strings that the program formats are sequences of one-character         *)
(* strings, so that concatenation and substitution are computed.           *)
(***************************************************************************)
EXTENDS Integers, Sequences, FiniteSets, TLC

\* ------------------------------------------------------------------ bounds
\* Longest argument string greet is applied to on its own (SpecGreet).
MaxNameLen == 3
\* Longest argument string of a front-end call between menu events.
MaxArgLen == 1
\* Number of webview windows the runtime creates during one run.
MaxWindows == 2
\* Number of diagnostic lines kept on the error stream.
MaxStderr == 2
\* Longest run of toggle activations that is observed from one anchor.
MaxRun == 2

\* --------------------------------------------------------------- constants
\* get_webview_window returns Option<WebviewWindow>: None is 0, Some(w) is
\* the identity w of the window, a number in 1..MaxWindows.
None == 0
WindowIds == 1..MaxWindows

\* The label the handler looks up, and another label the runtime may hold.
MainLabel == "main"
Labels == {"main", "aux"}

\* The id given to the menu item, and the ids the runtime can deliver.
ToggleId == "toggle-devtools"
MenuIds == {"toggle-devtools", "quit", ""}

\* The command names a front end can call.
CommandNames == {"greet", "Greet", "toggle-devtools"}

\* The line the handler writes when the window is missing.
Diagnostic == "Failed to toggle devtools: main window is not available"

\* Characters of the argument strings: a letter and the two characters the
\* format syntax uses.
Chars == {"W", "{", "}"}

World == <<"W", "o", "r", "l", "d">>

\* Sequences over S of length at most n.
RECURSIVE SeqsUpTo(_, _)
SeqsUpTo(S, n) ==
  IF n = 0 THEN {<<>>}
  ELSE LET shorter == SeqsUpTo(S, n - 1)
       IN  shorter \cup {Append(s, c) : s \in shorter, c \in S}

Names == SeqsUpTo(Chars, MaxNameLen) \cup {World}

\* The arguments of the calls that are interleaved with menu events.
Args == SeqsUpTo({"W"}, MaxArgLen)

\* ------------------------------------------------------------------- greet
\* The format string of greet, character by character.
GreetTemplate ==
  <<"H", "e", "l", "l", "o", ",", " ", "{", "}", "!", " ",
    "Y", "o", "u", "'", "v", "e", " ", "b", "e", "e", "n", " ",
    "g", "r", "e", "e", "t", "e", "d", " ", "f", "r", "o", "m", " ",
    "R", "u", "s", "t", "!">>

\* Debug formatting of a str: quoted, with quotes escaped.
RECURSIVE DebugStrBody(_)
DebugStrBody(s) ==
  IF s = <<>> THEN <<>>
  ELSE (IF Head(s) = "\"" THEN <<"\\", "\"">> ELSE <<Head(s)>>)
       \o DebugStrBody(Tail(s))

DebugStr(s) == <<"\"">> \o DebugStrBody(s) \o <<"\"">>

\* Display formatting of a str with no width or precision: every character
\* of the argument is written as it is.
DisplayStr(s) == [i \in 1..Len(s) |-> s[i]]

\* format!: the template is scanned once; each "{}" is replaced by the
\* Display of the next argument, every other character is copied.  The
\* substituted text is not scanned again.
RECURSIVE Format(_, _)
Format(t, args) ==
  IF t = <<>> THEN <<>>
  ELSE IF Len(t) >= 2 /\ t[1] = "{" /\ t[2] = "}"
       THEN DisplayStr(Head(args)) \o Format(SubSeq(t, 3, Len(t)), Tail(args))
       ELSE <<Head(t)>> \o Format(Tail(t), args)

VARIABLES
  windows,    \* the runtime's windows: label -> window identity, None if absent
  devtools,   \* per window: whether its devtools are open
  created,    \* number of windows created so far (identities are never reused)
  stderr,     \* the lines written to the error stream
  last,       \* what the last dispatched callback observed and did
  memo,       \* an earlier greet call: its argument and its response
  runStart,   \* devtools of "main" at the last anchor of the observed run
  runLen,     \* toggle activations on "main" since that anchor
  pc,         \* position of the menu-event callback ("idle" between callbacks)
  hWindow,    \* the callback's local `window`
  hOpen       \* the callback's local result of is_devtools_open()

vars == <<windows, devtools, created, stderr, last, memo, runStart, runLen,
          pc, hWindow, hOpen>>

\* greet with {:?} in place of {}.
greetDebug(name) == Format(GreetTemplate, <<DebugStr(name)>>)

\* greet reading process state: it marks the greeting once anything was logged.
greetStateful(name) ==
  Format(GreetTemplate, <<name>>) \o (IF Len(stderr) > 0 THEN <<"!">> ELSE <<>>)

\* fn greet(name: &str) -> String
greet(name) == Format(GreetTemplate, <<name>>)

\* A handler that matches the command name without regard to case.
invoke_handlerAnyCase(cmd, arg) ==
  IF cmd \in {"greet", "Greet"}
  THEN [ok |-> TRUE, value |-> greet(arg)]
  ELSE [ok |-> FALSE, value |-> <<>>]

\* generate_handler![greet]: the command name is matched against the
\* registered commands; a match runs the command and resolves the call with
\* its value, anything else is rejected (the call fails at the caller).
invoke_handler(cmd, arg) ==
  IF cmd = "greet"
  THEN [ok |-> TRUE, value |-> greet(arg)]
  ELSE [ok |-> FALSE, value |-> <<>>]

\* ------------------------------------------------------- runtime interface
\* A closure without the id test: every menu event toggles.
is_toggle_any(id) == TRUE

\* event.id() == "toggle-devtools"
is_toggle(id) == id = ToggleId

\* A handle taken once at startup in place of the lookup.
get_webview_window_stale(label) == IF label = MainLabel THEN 1 ELSE windows[label]

\* app.get_webview_window(label): the window now registered under the label.
get_webview_window(label) == windows[label]

\* A flag the bridge flips itself in place of the query.
is_devtools_open_cached(window, fail) == {runLen % 2 = 1}

\* window.is_devtools_open() -> bool, as the set of values the call can
\* return.  The call has no error channel: when the runtime fails to answer,
\* the caller still receives some bool.
is_devtools_open(window, fail) ==
  IF fail THEN BOOLEAN ELSE {devtools[window]}

\* window.open_devtools() and window.close_devtools() return (): a change
\* the runtime fails to apply leaves the devtools as they were and is not
\* reported to the caller.
open_devtools(window, fail) ==
  IF fail THEN devtools ELSE [devtools EXCEPT ![window] = TRUE]

\* A close that is never issued.
close_devtools_noop(window, fail) == devtools

close_devtools(window, fail) ==
  IF fail THEN devtools ELSE [devtools EXCEPT ![window] = FALSE]

\* A missing window that is skipped without a word.
eprintln_silent(line) == stderr

\* eprintln!(line)
eprintln(line) == Append(stderr, line)

\* A loop that delivers events while a callback is still running.
HostLoopRacy == TRUE

\* The host event loop runs one callback at a time on its thread: window
\* events and front-end calls are delivered only between callbacks.
HostLoopIdle == pc = "idle"

\* ------------------------------------------------------------ observations
NoCall ==
  [kind |-> "none", id |-> "", arg |-> <<>>, looked |-> FALSE, window |-> None,
   query |-> "none", issued |-> "none", diag |-> FALSE,
   qfail |-> FALSE, cfail |-> FALSE, ok |-> FALSE, value |-> <<>>]

MenuCall(id) == [NoCall EXCEPT !.kind = "menu", !.id = id]

\* The record of a toggle on a resolved window that read `open`.
ToggleCall(window, open, qfail, cfail) ==
  [MenuCall(ToggleId) EXCEPT
     !.looked = TRUE, !.window = window,
     !.query = IF open THEN "open" ELSE "closed",
     !.issued = IF open THEN "close" ELSE "open",
     !.qfail = qfail, !.cfail = cfail]

NoMemo == [set |-> FALSE, arg |-> <<>>, value |-> <<>>, logged |-> 0]

\* The observed run after one more toggle on a window whose devtools were `was`.
RunAfterToggle(was) ==
  IF runLen = MaxRun
  THEN [start |-> was, len |-> 1]
  ELSE [start |-> runStart, len |-> runLen + 1]

\* -------------------------------------------------------------------- Init
\* After Builder::run has built the app: the window "main" exists with its
\* devtools closed, nothing has been logged, no callback has run.
Init ==
  /\ windows = [l \in Labels |-> IF l = MainLabel THEN 1 ELSE None]
  /\ devtools = [w \in WindowIds |-> FALSE]
  /\ created = 1
  /\ stderr = <<>>
  /\ last = NoCall
  /\ memo = NoMemo
  /\ runStart = FALSE
  /\ runLen = 0
  /\ pc = "idle"
  /\ hWindow = None
  /\ hOpen = FALSE

\* ----------------------------------------------------- the menu-event bridge
\* The closure given to on_menu_event, run to completion.  qfail and cfail
\* say whether the runtime fails the query and the change of this activation.
on_menu_event(id, qfail, cfail) ==
  /\ HostLoopIdle
  /\ IF is_toggle(id)
     THEN LET window == get_webview_window(MainLabel)
          IN  IF window # None
              THEN \E open \in is_devtools_open(window, qfail) :
                     /\ devtools' = IF open THEN close_devtools(window, cfail)
                                            ELSE open_devtools(window, cfail)
                     /\ last' = ToggleCall(window, open, qfail, cfail)
                     /\ runStart' = RunAfterToggle(devtools[window]).start
                     /\ runLen' = RunAfterToggle(devtools[window]).len
                     /\ UNCHANGED stderr
              ELSE /\ Len(stderr) < MaxStderr
                   /\ stderr' = eprintln(Diagnostic)
                   /\ last' = [MenuCall(id) EXCEPT !.looked = TRUE, !.diag = TRUE]
                   /\ UNCHANGED <<devtools, runStart, runLen>>
     ELSE /\ last' = MenuCall(id)
          /\ UNCHANGED <<devtools, stderr, runStart, runLen>>
  /\ UNCHANGED <<windows, created, memo, pc, hWindow, hOpen>>

\* The same closure, one runtime call at a time.
\* Lines 27-28 and 35: the id test, the lookup, the diagnostic.
MenuDispatch(id) ==
  /\ HostLoopIdle
  /\ IF is_toggle(id)
     THEN LET window == get_webview_window(MainLabel)
          IN  IF window # None
              THEN /\ hWindow' = window
                   /\ pc' = "query"
                   /\ UNCHANGED <<stderr, last>>
              ELSE /\ Len(stderr) < MaxStderr
                   /\ stderr' = eprintln(Diagnostic)
                   /\ last' = [MenuCall(id) EXCEPT !.looked = TRUE, !.diag = TRUE]
                   /\ UNCHANGED <<pc, hWindow>>
     ELSE /\ last' = MenuCall(id)
          /\ UNCHANGED <<stderr, pc, hWindow>>
  /\ UNCHANGED <<windows, devtools, created, memo, runStart, runLen, hOpen>>

\* Line 29: window.is_devtools_open().
QueryStep ==
  /\ pc = "query"
  /\ hOpen' \in is_devtools_open(hWindow, FALSE)
  /\ pc' = "issue"
  /\ UNCHANGED <<windows, devtools, created, stderr, last, memo, runStart,
                 runLen, hWindow>>

\* Lines 30 and 32: close_devtools() or open_devtools(), then the closure returns.
IssueStep ==
  /\ pc = "issue"
  /\ devtools' = IF hOpen THEN close_devtools(hWindow, FALSE)
                         ELSE open_devtools(hWindow, FALSE)
  /\ last' = ToggleCall(hWindow, hOpen, FALSE, FALSE)
  /\ runStart' = RunAfterToggle(devtools[hWindow]).start
  /\ runLen' = RunAfterToggle(devtools[hWindow]).len
  /\ pc' = "idle"
  /\ hWindow' = None
  /\ hOpen' = FALSE
  /\ UNCHANGED <<windows, created, stderr, memo>>

\* ------------------------------------------------------ the command registry
\* A front-end call delivered by the runtime to the invoke handler.
Invoke(cmd, arg, keep) ==
  /\ HostLoopIdle
  /\ \E l \in Labels : windows[l] # None
  /\ LET r == invoke_handler(cmd, arg)
     IN  /\ last' = [NoCall EXCEPT !.kind = "invoke", !.id = cmd, !.arg = arg,
                                   !.ok = r.ok, !.value = r.value]
         /\ memo' = IF keep /\ cmd = "greet" /\ r.ok
                    THEN [set |-> TRUE, arg |-> arg, value |-> r.value,
                          logged |-> Len(stderr)]
                    ELSE memo
  /\ UNCHANGED <<windows, devtools, created, stderr, runStart, runLen,
                 pc, hWindow, hOpen>>

\* ------------------------------------------------------------ the environment
\* The runtime creates a window under a free label, devtools closed.
CreateWindow(label) ==
  /\ HostLoopIdle
  /\ windows[label] = None
  /\ created < MaxWindows
  /\ created' = created + 1
  /\ windows' = [windows EXCEPT ![label] = created + 1]
  /\ devtools' = [devtools EXCEPT ![created + 1] = FALSE]
  /\ runStart' = IF label = MainLabel THEN FALSE ELSE runStart
  /\ runLen' = IF label = MainLabel THEN 0 ELSE runLen
  /\ UNCHANGED <<stderr, last, memo, pc, hWindow, hOpen>>

\* The user closes a window: it leaves the runtime's table with its overlay.
CloseWindow(label) ==
  /\ HostLoopIdle
  /\ windows[label] # None
  /\ windows' = [windows EXCEPT ![label] = None]
  /\ devtools' = [devtools EXCEPT ![windows[label]] = FALSE]
  /\ runStart' = IF label = MainLabel THEN FALSE ELSE runStart
  /\ runLen' = IF label = MainLabel THEN 0 ELSE runLen
  /\ UNCHANGED <<created, stderr, last, memo, pc, hWindow, hOpen>>

\* The user opens or closes a window's devtools by other means (a keyboard
\* shortcut, the context menu, the overlay's own close button).
ExternalDevtools(label) ==
  /\ HostLoopIdle
  /\ windows[label] # None
  /\ devtools' = [devtools EXCEPT ![windows[label]] = ~devtools[windows[label]]]
  /\ runStart' = IF label = MainLabel THEN ~devtools[windows[label]] ELSE runStart
  /\ runLen' = IF label = MainLabel THEN 0 ELSE runLen
  /\ UNCHANGED <<windows, created, stderr, last, memo, pc, hWindow, hOpen>>

Environment ==
  \E label \in Labels :
    CreateWindow(label) \/ CloseWindow(label) \/ ExternalDevtools(label)

\* ---------------------------------------------------------- specifications
\* The runtime answers every call.
Next ==
  \/ \E id \in MenuIds : on_menu_event(id, FALSE, FALSE)
  \/ \E cmd \in CommandNames, arg \in Args :
       \E keep \in (IF cmd = "greet" THEN BOOLEAN ELSE {FALSE}) :
         Invoke(cmd, arg, keep)
  \/ Environment

Spec == Init /\ [][Next]_vars

\* The runtime may fail the query or the change of an activation.
NextFault ==
  \/ \E id \in MenuIds, qfail \in BOOLEAN, cfail \in BOOLEAN :
       on_menu_event(id, qfail, cfail)
  \/ \E cmd \in CommandNames, arg \in Args :
       \E keep \in (IF cmd = "greet" THEN BOOLEAN ELSE {FALSE}) :
         Invoke(cmd, arg, keep)
  \/ Environment

SpecFault == Init /\ [][NextFault]_vars

\* The closure taken one runtime call at a time under the host loop.
NextSteps ==
  \/ \E id \in MenuIds : MenuDispatch(id)
  \/ QueryStep
  \/ IssueStep
  \/ \E cmd \in CommandNames, arg \in Args :
       \E keep \in (IF cmd = "greet" THEN BOOLEAN ELSE {FALSE}) :
         Invoke(cmd, arg, keep)
  \/ Environment

SpecSteps == Init /\ [][NextSteps]_vars

\* The command registry on its own: calls with every name up to MaxNameLen.
NextGreet ==
  \E cmd \in CommandNames, name \in Names : Invoke(cmd, name, FALSE)

SpecGreet == Init /\ [][NextGreet]_vars

\* ------------------------------------------------------------------ claims
Main == windows[MainLabel]

\* The state the program owns or can reach into, apart from the observations.
AppState == <<windows, devtools, created, stderr>>

\* C1: from devtools Closed with "main" present and nothing else changing the
\* overlay, after n activations of "toggle-devtools" the devtools are Open
\* exactly when n is odd (one activation: Open; two: Closed again).
C1_ToggleParity ==
  (Main # None /\ runStart = FALSE /\ pc = "idle")
    => (devtools[Main] <=> (runLen % 2 = 1))

\* Two activations from Closed, none by another actor, and Closed again.
C1_Witness ==
  /\ Main # None
  /\ runStart = FALSE
  /\ runLen = 2
  /\ ~devtools[Main]
  /\ last.kind = "menu" /\ last.issued = "close"

\* C2: when no window labeled "main" is resolved, an activation of
\* "toggle-devtools" issues neither open nor close, changes no devtools state,
\* writes the diagnostic and returns; in every state, however often repeated.
C2_MissingWindowSkips ==
  [][(Main = None /\ on_menu_event(ToggleId, FALSE, FALSE))
       => /\ devtools' = devtools
          /\ windows' = windows
          /\ stderr' = Append(stderr, Diagnostic)
          /\ last'.looked /\ last'.diag
          /\ last'.issued = "none" /\ last'.window = None
          /\ pc' = "idle"]_vars

\* The second of two activations without a window has written its line.
C2_Witness ==
  /\ Main = None
  /\ stderr = <<Diagnostic, Diagnostic>>
  /\ last.kind = "menu" /\ last.id = ToggleId /\ last.diag

\* C3: when the runtime fails the query or the change of an activation on a
\* resolved window, the bridge logs the failure and the devtools state is
\* unchanged.
C3_FaultLoggedStateKept ==
  [][\A q \in BOOLEAN, c \in BOOLEAN :
       ((q \/ c) /\ Main # None /\ on_menu_event(ToggleId, q, c))
         => /\ Len(stderr') = Len(stderr) + 1
            /\ devtools' = devtools]_vars

\* C4: a menu id other than "toggle-devtools" is a no-op: no lookup, no open
\* or close, no change of the devtools or of the windows, no diagnostic.
C4_OtherIdsIgnored ==
  [][\A id \in MenuIds \ {ToggleId} :
       on_menu_event(id, FALSE, FALSE)
         => /\ AppState' = AppState
            /\ ~last'.looked
            /\ last'.issued = "none"
            /\ ~last'.diag
            /\ pc' = "idle"]_vars

\* Another id was activated while the devtools of "main" were open, and they are.
C4_Witness ==
  /\ last.kind = "menu" /\ last.id = "quit"
  /\ Main # None /\ devtools[Main]

\* The two literal parts of the greeting.
HelloPrefix == <<"H", "e", "l", "l", "o", ",", " ">>
GreetedSuffix ==
  <<"!", " ", "Y", "o", "u", "'", "v", "e", " ", "b", "e", "e", "n", " ",
    "g", "r", "e", "e", "t", "e", "d", " ", "f", "r", "o", "m", " ",
    "R", "u", "s", "t", "!">>
HelloWorld ==
  <<"H", "e", "l", "l", "o", ",", " ", "W", "o", "r", "l", "d", "!", " ",
    "Y", "o", "u", "'", "v", "e", " ", "b", "e", "e", "n", " ",
    "g", "r", "e", "e", "t", "e", "d", " ", "f", "r", "o", "m", " ",
    "R", "u", "s", "t", "!">>

\* C5: for every string s, the empty one and those with format characters
\* included, greet(s) succeeds with "Hello, " then s unmodified then
\* "! You've been greeted from Rust!"; greet("World") and greet("") are the
\* two strings of the scenarios.
C5_GreetFormat ==
  (last.kind = "invoke" /\ last.id = "greet")
    => /\ last.ok
       /\ last.value = HelloPrefix \o last.arg \o GreetedSuffix
       /\ Len(last.value) = Len(last.arg) + 39
       /\ (last.arg = World => last.value = HelloWorld)
       /\ (last.arg = <<>> => last.value = HelloPrefix \o GreetedSuffix)

\* greet was called with the string "{}" and answered.
C5_Witness ==
  /\ last.kind = "invoke" /\ last.id = "greet"
  /\ last.arg = <<"{", "}">>
  /\ last.ok

C8_TogglesActualState ==
  [][(Main # None /\ on_menu_event(ToggleId, FALSE, FALSE))
       => /\ devtools'[Main] = ~devtools[Main]
          /\ (last'.issued = "open") <=> ~devtools[Main]
          /\ (last'.issued = "close") <=> devtools[Main]]_vars

\* The overlay was opened by other means and the next activation closed it.
C8_Witness ==
  /\ Main # None
  /\ runStart = TRUE /\ runLen = 1
  /\ last.kind = "menu" /\ last.issued = "close" /\ last.window = Main
  /\ ~devtools[Main]

\* C9: every activation acts on the window registered as "main" at that
\* moment: after a close and a re-creation it toggles the new window, and it
\* never changes the devtools of a window that is not the present "main".
C9_HandleResolvedEachTime ==
  [][on_menu_event(ToggleId, FALSE, FALSE)
       => /\ last'.window = Main
          /\ \A w \in WindowIds : (w # Main) => (devtools'[w] = devtools[w])
          /\ (Main # None) => (devtools'[Main] # devtools[Main])]_vars

\* "main" is a re-created window and the last activation opened its devtools.
C9_Witness ==
  /\ Main # None /\ Main > 1
  /\ last.kind = "menu" /\ last.window = Main /\ last.issued = "open"
  /\ devtools[Main]

====
